---- MODULE Spec2Model ----
(***************************************************************************)
(* A model of publicious, the in-process publish/subscribe dispatcher.     *)
(*                                                                         *)
(* The program is single threaded.  The model keeps the JavaScript call    *)
(* stack as a sequence of publish frames: every frame on the stack is a    *)
(* Channel.publish call that is inside the invocation of one subscriber    *)
(* (frame.node); the topmost frame is the subscriber that is running now.  *)
(* When the stack is empty the code that runs is top-level code (a test,   *)
(* an event handler of the host) or a timer callback.  setTimeout(.., 0)   *)
(* is the FIFO queue "timers".                                             *)
(***************************************************************************)
EXTENDS Integers, Sequences, FiniteSets, TLC

\* Bounds of the model.
MaxNodes == 2      \* DLLNode objects alive at one time
MaxTimers == 1     \* callbacks waiting in the timer queue
MaxDepth == 2      \* Channel.publish calls nested on the call stack

\* Inputs.
Names == {"foo", "bar"}
Fns == {"H1", "H2", "H3"}

\* fn.toString() of the three handler references, as char codes.  H1 and H2
\* are two distinct references whose text differs only in white space.
FnSource ==
  [H1 |-> <<40, 41, 61, 62, 120>>,
   H2 |-> <<40, 41, 32, 61, 62, 10, 120>>,
   H3 |-> <<40, 41, 61, 62, 121>>]

----------------------------------------------------------------------------
\* Subscription.hashFn / hashStr

\* /\s/ : the white space characters that occur in the inputs
IsSpace(c) == c \in {9, 10, 11, 12, 13, 32}

\* str.replace(/\s/g, '')
StripSpace(str) == SelectSeq(str, LAMBDA c : ~IsSpace(c))

\* One round of the loop of hashStr on the 32-bit pattern <<hi, lo>> (two
\* 16-bit limbs): hash = ((hash << 5) - hash) + code; hash |= 0.
\* Modulo 2^32 that is 31 * hash + code.
HashRound(h, code) ==
  LET lo == h[2] * 31 + code
      hi == h[1] * 31 + (lo \div 65536)
  IN  <<hi % 65536, lo % 65536>>

RECURSIVE HashLimbs(_, _)
HashLimbs(str, h) ==
  IF str = <<>> THEN h ELSE HashLimbs(Tail(str), HashRound(h, Head(str)))

\* The signed 32-bit integer of a pattern (what hash.toString() prints).
ToInt32(h) == IF h[1] >= 32768 THEN (h[1] - 65536) * 65536 + h[2] ELSE h[1] * 65536 + h[2]

hashStr(str) == ToInt32(HashLimbs(str, <<0, 0>>))

\* The hash ids of the handler references, computed once.
FnHash == [fn \in Fns |-> hashStr(StripSpace(FnSource[fn]))]

hashFn(fn) == FnHash[fn]

----------------------------------------------------------------------------
\* Values passed as publish arguments.  t is the kind of value: "val" a
\* payload value s, "opt" an options object, "chan" the Channel object c.
\* An options object is {suppressErrors: true} (s = "T"), {suppressErrors:
\* false} (s = "F") or {} (s = "E", no own property suppressErrors).
Val(s) == [t |-> "val", s |-> s, c |-> 0]
Opt(s) == [t |-> "opt", s |-> s, c |-> 0]
ChanArg(c) == [t |-> "chan", s |-> "", c |-> c]

\* A publish call is <<payload, opt>>: the payload arguments and the trailing
\* argument, none (<<>>) or an explicit options object.
Payloads == {<<>>, <<Val("a")>>}
CallOpts == {<<>>, <<Opt("T")>>, <<Opt("F")>>}
AllPublishInputs == Payloads \X CallOpts
\* new PubSub(publishOptions): the default {suppressErrors: true}, or an
\* object of type PublishOptions (suppressErrors is optional in it).
CtorOpts == {Opt("T"), Opt("F"), Opt("E")}
\* The calls of the main specification: on a PubSub built with the default
\* options, one payload value, published with the default or without
\* suppression.
DefaultCtorOpts == {Opt("T")}
MainPublishInputs == {<< <<Val("a")>>, <<>> >>, << <<Val("a")>>, <<Opt("F")>> >>}
\* The third argument of subscribe: no numeric priority, or {priority: p}.
NoPriority == [has |-> FALSE, p |-> 0]
Priority(p) == [has |-> TRUE, p |-> p]
\* The subscribe calls <<channelName, fn, priority>> of the runs: H1 and
\* H2, whose hash ids collide, go to bucket 4 (by default and by a priority
\* above the range), H3 to bucket 0 (by a priority below the range).
SubscribeInputs ==
  {<<"foo", "H1", NoPriority>>, <<"foo", "H2", Priority(7)>>,
   <<"foo", "H3", Priority(-1)>>}
\* The subscribe calls of the specification of the publish arguments.
ArgsSubscribeInputs == {<<"foo", "H1", NoPriority>>, <<"foo", "H3", Priority(-1)>>}

\* args[args.length - 1] || {}
LastArg(args) == IF args = <<>> THEN Opt("E") ELSE args[Len(args)]
\* hasOwnProperty.call(lastArg, "suppressErrors")
HasSuppressErrors(a) == a.t = "opt" /\ a.s \in {"T", "F"}
\* lastArg.suppressErrors != false
SuppressErrorsOf(a) == ~(a.t = "opt" /\ a.s = "F")

----------------------------------------------------------------------------
\* Channel: the command mask

CLEAR_BITS == 0
SIG_INT == 1
PUBLISHING == 2

\* mask & bit (bit is a power of two)
HasBit(mask, bit) == (mask \div bit) % 2 = 1
\* mask | bit
OrBit(mask, bit) == IF HasBit(mask, bit) THEN mask ELSE mask + bit
\* A mask that is left as it is.
KeepBits(mask) == mask

\* mask & CLEAR_BITS
AndClear(mask) == CLEAR_BITS

NoErr == "none"

----------------------------------------------------------------------------
\* Channel and DLLNode.  A Channel object is
\*   [namespace, mask (_commandMask), matrix (_priorityMatrix: the head of
\*    bucket p is matrix[p + 1], 0 is null or undefined; an index at or
\*    beyond the array's length reads undefined as a hole does, and publish
\*    passes over both in the same way, so the array is kept at its full
\*    length of Buckets slots), fnHashMap (_fnHashMap: a function from the hash ids that are
\*    own properties to the array of nodes), callingNode (_callingNode, 0 is
\*    null)].
\* A DLLNode is [fn, priority, prev, next] with 0 for null, and for the
\* properties pending (an unsubscribe call has deferred the removal of this
\* node).  Node and
\* channel ids are positions in the sequences nodes and chans: objects are
\* never reused, so an id is an object identity.

\* The priorities are 0..4 after PubSub.subscribe has clamped them.
Buckets == 5

NewChannel(name) ==
  [namespace |-> name, mask |-> 0, matrix |-> [i \in 1..Buckets |-> 0],
   fnHashMap |-> <<>>, callingNode |-> 0]

NewNode(fn, priority) ==
  [fn |-> fn, priority |-> priority, prev |-> 0, next |-> 0, pending |-> FALSE]

\* this._priorityMatrix[p]
BucketHead(ch, p) == ch.matrix[p + 1]

\* this._priorityMatrix[p] = n  (a JavaScript array grows, with holes)
SetHead(matrix, p, n) == [matrix EXCEPT ![p + 1] = n]

\* while (last.next) last = last.next
RECURSIVE LastFrom(_, _)
LastFrom(nds, n) == IF nds[n].next = 0 THEN n ELSE LastFrom(nds, nds[n].next)

\* Object.keys(this._fnHashMap).length > 0
hasSubscribers(ch) == DOMAIN ch.fnHashMap # {}

\* delete map[id]
DeleteKey(map, id) == [k \in DOMAIN map \ {id} |-> map[k]]
\* map[id] = arr
SetKey(map, id, arr) == [k \in DOMAIN map \cup {id} |-> IF k = id THEN arr ELSE map[k]]
\* arr.splice(i, 1), i 1-based
Splice(arr, i) == [j \in 1..(Len(arr) - 1) |-> IF j < i THEN arr[j] ELSE arr[j + 1]]

\* A duplicate check by the hash id alone: what Channel.subscribe must not
\* do.
HashCollides(ch, nds, fn) == hashFn(fn) \in DOMAIN ch.fnHashMap

\* The duplicate check of Channel.subscribe: the forEach over the array of
\* the hash id finds a node with this very function reference.
IsDuplicate(ch, nds, fn) ==
  /\ hashFn(fn) \in DOMAIN ch.fnHashMap
  /\ \E i \in 1..Len(ch.fnHashMap[hashFn(fn)]) : nds[ch.fnHashMap[hashFn(fn)][i]].fn = fn

\* The new node n linked in front of its bucket: what Channel.subscribe
\* must not do.
LinkAtHead(ch, nds, n, priority) ==
  IF BucketHead(ch, priority) # 0
  THEN [matrix |-> SetHead(ch.matrix, priority, n),
        nodes |-> [nds EXCEPT ![BucketHead(ch, priority)].prev = n,
                              ![n].next = BucketHead(ch, priority)]]
  ELSE [matrix |-> SetHead(ch.matrix, priority, n), nodes |-> nds]

\* Where Channel.subscribe links the new node n: after the last node of the
\* bucket, or as the head of an empty bucket.
LinkNode(ch, nds, n, priority) ==
  IF BucketHead(ch, priority) # 0
  THEN LET last == LastFrom(nds, BucketHead(ch, priority))
       IN  [matrix |-> ch.matrix,
            nodes |-> [nds EXCEPT ![last].next = n, ![n].prev = last]]
  ELSE [matrix |-> SetHead(ch.matrix, priority, n), nodes |-> nds]

\* A Channel.subscribe that links the new node before it looks for a
\* duplicate, and throws with the node in place.
LinkThenCheck(ch, nds, fn, priority) ==
  LET n == Len(nds) + 1
      id == hashFn(fn)
      arr == IF id \in DOMAIN ch.fnHashMap THEN ch.fnHashMap[id] ELSE <<>>
      linked == LinkNode(ch, Append(nds, NewNode(fn, priority)), n, priority)
  IN  [threw |-> IsDuplicate(ch, nds, fn),
       ch |-> [ch EXCEPT !.fnHashMap = SetKey(ch.fnHashMap, id, Append(arr, n)),
                         !.matrix = linked.matrix],
       nodes |-> linked.nodes]

\* Channel.subscribe(fn, priority, context) on channel object ch with the
\* node store nds: [threw, ch, nodes].
ChannelSubscribe(ch, nds, fn, priority) ==
  IF IsDuplicate(ch, nds, fn)
  THEN [threw |-> TRUE, ch |-> ch, nodes |-> nds]
  ELSE LET n == Len(nds) + 1
           id == hashFn(fn)
           arr == IF id \in DOMAIN ch.fnHashMap THEN ch.fnHashMap[id] ELSE <<>>
           linked == LinkNode(ch, Append(nds, NewNode(fn, priority)), n, priority)
       IN  [threw |-> FALSE,
            ch |-> [ch EXCEPT !.fnHashMap = SetKey(ch.fnHashMap, id, Append(arr, n)),
                              !.matrix = linked.matrix],
            nodes |-> linked.nodes]

\* A loop that takes the first node of the hash id, whatever function it
\* holds.
FirstOfHash(arr, nds, fn, idx) == idx

\* The for loop of Channel.unsubscribe: the first index of fnArray whose
\* node holds fn, or Len(fnArray) + 1 when the loop runs off the end.
RECURSIVE FindFn(_, _, _, _)
FindFn(arr, nds, fn, idx) ==
  IF idx > Len(arr) THEN idx
  ELSE IF nds[arr[idx]].fn = fn THEN idx
  ELSE FindFn(arr, nds, fn, idx + 1)

\* An unsubscribe that defers the removal of the calling node whatever the
\* interrupt flag says.
AlwaysDefer(ch, n) == ch.callingNode = n

\* An unsubscribe that splices the calling node out like any other.
NeverDefer(ch, n) == FALSE

\* if (this._callingNode === node && !(this._commandMask & this.SIG_INT))
MustDefer(ch, n) == ch.callingNode = n /\ ~HasBit(ch.mask, SIG_INT)

\* An unlink that drops the whole bucket of node n.
DropBucket(ch, nds, n) ==
  [matrix |-> SetHead(ch.matrix, nds[n].priority, 0), nodes |-> nds]

\* A splice that joins the neighbours of node n and leaves the links of n.
KeepLinks(ch, nds, n) ==
  LET nd == nds[n]
  IN  [matrix |-> IF nd.prev = 0 THEN SetHead(ch.matrix, nd.priority, nd.next)
                  ELSE ch.matrix,
       nodes |-> [i \in 1..Len(nds) |->
                    IF i = n THEN nds[i]
                    ELSE IF i = nd.prev THEN [nds[i] EXCEPT !.next = nd.next]
                    ELSE IF i = nd.next THEN [nds[i] EXCEPT !.prev = nd.prev]
                    ELSE nds[i]]]

\* The splice of node n out of its bucket: [matrix, nodes].
Unlink(ch, nds, n) ==
  LET nd == nds[n]
  IN  IF nd.prev = 0
      THEN [matrix |-> SetHead(ch.matrix, nd.priority, nd.next),
            nodes |-> [i \in 1..Len(nds) |->
                         IF i = n THEN [nds[i] EXCEPT !.next = 0]
                         ELSE IF i = nd.next THEN [nds[i] EXCEPT !.prev = 0]
                         ELSE nds[i]]]
      ELSE [matrix |-> ch.matrix,
            nodes |-> [i \in 1..Len(nds) |->
                         IF i = n THEN [nds[i] EXCEPT !.next = 0, !.prev = 0]
                         ELSE IF i = nd.prev THEN [nds[i] EXCEPT !.next = nd.next]
                         ELSE IF i = nd.next THEN [nds[i] EXCEPT !.prev = nd.prev]
                         ELSE nds[i]]]

\* An eviction that deletes the whole array of the id.
DropKey(map, id, idx) == DeleteKey(map, id)

\* An eviction that leaves _fnHashMap as it is.
KeepIndex(map, id, idx) == map

\* The update of _fnHashMap after an eviction at index idx of the array of id.
DropIndex(map, id, idx) ==
  IF Len(map[id]) <= 1 THEN DeleteKey(map, id) ELSE SetKey(map, id, Splice(map[id], idx))

\* Channel.unsubscribe(fn): [evicted (the return value), deferred (a
\* setTimeout of unsubscribe was scheduled), node (the node found), ch, nodes].
ChannelUnsubscribe(ch, nds, fn) ==
  LET id == hashFn(fn)
      unchanged == [evicted |-> FALSE, deferred |-> FALSE, node |-> 0, ch |-> ch, nodes |-> nds]
  IN  IF id \notin DOMAIN ch.fnHashMap THEN unchanged
      ELSE LET idx == FindFn(ch.fnHashMap[id], nds, fn, 1)
           IN  IF idx > Len(ch.fnHashMap[id]) THEN unchanged
               ELSE LET n == ch.fnHashMap[id][idx]
                    IN  IF MustDefer(ch, n)
                        THEN [unchanged EXCEPT !.deferred = TRUE, !.node = n]
                        ELSE LET u == Unlink(ch, nds, n)
                             IN  [evicted |-> TRUE, deferred |-> FALSE, node |-> n,
                                  ch |-> [ch EXCEPT !.matrix = u.matrix,
                                                    !.fnHashMap = DropIndex(ch.fnHashMap, id, idx)],
                                  nodes |-> u.nodes]

----------------------------------------------------------------------------
\* The state of the program

VARIABLES
  publishOptions,  \* PubSub.publishOptions, set by the constructor
  channels,        \* PubSub._channels: name -> channel object id, 0 when the name is no key
  chans,           \* the Channel objects
  nodes,           \* the DLLNode objects
  stack,           \* the call stack: the Channel.publish calls in progress
  timers,          \* the callbacks scheduled with setTimeout(.., 0), oldest first
  lastCall         \* the API call or callback that the last step completed

vars == <<publishOptions, channels, chans, nodes, stack, timers, lastCall>>

\* A frame of Channel.publish: the locals idx, node, caughtError,
\* suppressErrors and args, the channel object (this), and for the
\* properties: origin ("sync": called by PubSub.publish, "timer": called by
\* a timer), payload and opt (the payload and the trailing options that the
\* caller of PubSub.publish passed), log (the subscribers invoked so far,
\* each with the error it threw), snap (the nodes of the channel when the
\* traversal started) and late (the nodes subscribed to the channel during
\* the traversal, into the bucket it was in or a later one).
NoFrame ==
  [chan |-> 0, origin |-> "", suppress |-> TRUE, args |-> <<>>, payload |-> <<>>,
   opt |-> <<>>, idx |-> 0, node |-> 0, caught |-> NoErr, log |-> <<>>, snap |-> <<>>,
   late |-> <<>>]

\* What lastCall records: the operation, its result ("subscribed", "threw",
\* "true", "false", "undefined", "promise", "resolved"), the Channel object
\* and the node it acted on, whether it scheduled a timer (deferred),
\* whether the interrupt flag of the channel was set when the publish call
\* returned (interrupted), the
\* frame of the publish call that returned (fr; of a publish call that
\* scheduled a timer, its suppressErrors and the caller's arguments), and
\* the arguments of a subscribe call (input).
Call(op, result, chan, node) ==
  [op |-> op, result |-> result, chan |-> chan, node |-> node,
   deferred |-> FALSE, interrupted |-> FALSE, fr |-> NoFrame, input |-> <<>>]

NoCall == Call("none", "", 0, 0)

\* The state as one record, for the operators that compute a step.
State ==
  [channels |-> channels, chans |-> chans, nodes |-> nodes,
   stack |-> stack, timers |-> timers, lastCall |-> lastCall]

\* The nodes of a bucket from node n on, following next.
RECURSIVE Chain(_, _)
Chain(nds, n) == IF n = 0 THEN <<>> ELSE <<n>> \o Chain(nds, nds[n].next)

\* The nodes of buckets p, p + 1, .. in the order a traversal visits them.
RECURSIVE OrderFrom(_, _, _)
OrderFrom(ch, nds, p) ==
  IF p >= Len(ch.matrix) THEN <<>>
  ELSE Chain(nds, BucketHead(ch, p)) \o OrderFrom(ch, nds, p + 1)

Order(ch, nds) == OrderFrom(ch, nds, 0)

Range(f) == {f[x] : x \in DOMAIN f}

----------------------------------------------------------------------------
\* The garbage collector of the JavaScript runtime: an object that nothing
\* refers to any more is dropped, and the ids of the others are renumbered
\* in their order of creation.

\* The nodes a Channel object refers to.
ChanNodes(ch) ==
  Range(ch.matrix) \cup UNION {Range(ch.fnHashMap[k]) : k \in DOMAIN ch.fnHashMap}
    \cup {ch.callingNode}

FrameNodes(fr) ==
  {fr.node} \cup {fr.log[i].node : i \in DOMAIN fr.log} \cup Range(fr.snap) \cup Range(fr.late)

LiveChans(s) ==
  ({s.channels[n] : n \in DOMAIN s.channels}
     \cup {s.stack[i].chan : i \in DOMAIN s.stack}
     \cup {s.timers[i].chan : i \in DOMAIN s.timers}
     \cup {s.lastCall.chan, s.lastCall.fr.chan}) \ {0}

RootNodes(s) ==
  (UNION {ChanNodes(s.chans[c]) : c \in LiveChans(s)}
     \cup UNION {FrameNodes(s.stack[i]) : i \in DOMAIN s.stack}
     \cup FrameNodes(s.lastCall.fr) \cup {s.lastCall.node}) \ {0}

RECURSIVE Closure(_, _)
Closure(nds, set) ==
  LET more == (set \cup {nds[n].prev : n \in set} \cup {nds[n].next : n \in set}) \ {0}
  IN  IF more = set THEN set ELSE Closure(nds, more)

\* The new id of object i when the objects of keep are kept.
Rank(keep, i) == IF i = 0 THEN 0 ELSE Cardinality({j \in keep : j <= i})

\* The i-th smallest id of keep.
Nth(keep, i) == CHOOSE j \in keep : Cardinality({k \in keep : k <= j}) = i

MoveArgs(args, kc) == [i \in DOMAIN args |-> [args[i] EXCEPT !.c = Rank(kc, @)]]

MoveFrame(fr, kc, kn) ==
  [fr EXCEPT !.chan = Rank(kc, @), !.node = Rank(kn, @),
             !.args = MoveArgs(@, kc),
             !.log = [i \in DOMAIN @ |-> [@[i] EXCEPT !.node = Rank(kn, @)]],
             !.snap = [i \in DOMAIN @ |-> Rank(kn, @[i])],
             !.late = [i \in DOMAIN @ |-> Rank(kn, @[i])]]

MoveChan(ch, kn) ==
  [ch EXCEPT !.matrix = [i \in DOMAIN @ |-> Rank(kn, @[i])],
             !.fnHashMap = [k \in DOMAIN @ |-> [i \in DOMAIN @[k] |-> Rank(kn, @[k][i])]],
             !.callingNode = Rank(kn, @)]

Collect(s) ==
  LET kc == LiveChans(s)
      kn == Closure(s.nodes, RootNodes(s))
  IN  IF kc = DOMAIN s.chans /\ kn = DOMAIN s.nodes THEN s ELSE
      [channels |-> [n \in DOMAIN s.channels |-> Rank(kc, s.channels[n])],
       chans |-> [i \in 1..Cardinality(kc) |-> MoveChan(s.chans[Nth(kc, i)], kn)],
       nodes |-> [i \in 1..Cardinality(kn) |->
                    [s.nodes[Nth(kn, i)] EXCEPT !.prev = Rank(kn, @), !.next = Rank(kn, @)]],
       stack |-> [i \in DOMAIN s.stack |-> MoveFrame(s.stack[i], kc, kn)],
       timers |-> [i \in DOMAIN s.timers |-> [s.timers[i] EXCEPT !.chan = Rank(kc, @)]],
       lastCall |-> [s.lastCall EXCEPT !.chan = Rank(kc, @), !.node = Rank(kn, @),
                                       !.fr = MoveFrame(@, kc, kn)]]

\* The step to state s: the collector runs, and the constructor's options stay.
Commit(s) ==
  \E u \in {s} : \E t \in {Collect(u)} :
      /\ channels' = t.channels
      /\ chans' = t.chans
      /\ nodes' = t.nodes
      /\ stack' = t.stack
      /\ timers' = t.timers
      /\ lastCall' = t.lastCall
      /\ UNCHANGED publishOptions

----------------------------------------------------------------------------
\* Channel.publish

\* The position of the traversal of Channel.publish: from the position
\* (idx, node) the loops move to the first node they would invoke; node = 0
\* in the result says that the for loop has ended.  The bucket heads are
\* read at the moment the loop reaches them.
RECURSIVE Seek(_, _, _)
Seek(ch, idx, node) ==
  IF node # 0 THEN [idx |-> idx, node |-> node]
  ELSE IF idx + 1 < Len(ch.matrix) THEN Seek(ch, idx + 1, BucketHead(ch, idx + 1))
  ELSE [idx |-> Len(ch.matrix), node |-> 0]

\* A traversal that never looks at the interrupt flag.
NeverSeen(ch) == FALSE

\* if (this._commandMask & this.SIG_INT), at the top of the while loop
InterruptSeen(ch) == HasBit(ch.mask, SIG_INT)

\* A catch block that keeps the first error.
KeepFirst(caught, err) == IF caught = NoErr THEN err ELSE caught

\* catch (err) { caughtError = err; .. }
Caught(caught, err) == err

\* A publish that throws whatever suppressErrors says.
RethrowsAny(caught, suppress) == caught # NoErr

\* if (caughtError && !suppressErrors) throw caughtError
Rethrows(caught, suppress) == caught # NoErr /\ ~suppress

\* A traversal that leaves a bucket after its first node.
HeadOnly(nds, n) == 0

\* A traversal that moves on by two nodes.
NextButOne(nds, n) == IF nds[n].next = 0 THEN 0 ELSE nds[nds[n].next].next

\* node = node.next, after the subscriber has returned or thrown
NextNode(nds, n) == nds[n].next

\* A PubSub.publish that pushes its publishOptions after every argument list.
AppendDefault(payload, opt, default) == Append(payload \o opt, default)

\* PubSub.publish: the argument list handed to Channel.publish.
PublishArgs(payload, opt, default) ==
  IF HasSuppressErrors(LastArg(payload \o opt))
  THEN payload \o opt
  ELSE Append(payload \o opt, default)

\* Channel.publish: the argument list the subscribers are applied to.
SubscriberArgs(args, c) ==
  Append(IF HasSuppressErrors(LastArg(args)) THEN SubSeq(args, 1, Len(args) - 1) ELSE args,
         ChanArg(c))

\* A Channel.publish that throws to its caller when an interrupt ended it.
InterruptThrows(fr, result, interrupted) ==
  [Call("publish", IF interrupted THEN "threw" ELSE result, fr.chan, 0)
     EXCEPT !.interrupted = interrupted,
            !.fr = [fr EXCEPT !.idx = 0, !.node = 0]]

\* The record of a Channel.publish call that ran the traversal and is over.
PublishDone(fr, result, interrupted) ==
  [Call("publish", result, fr.chan, 0)
     EXCEPT !.interrupted = interrupted,
            !.fr = [fr EXCEPT !.idx = 0, !.node = 0]]

\* The traversal of Channel.publish in state s from the position of frame
\* fr, with the frames below it on the stack: up to the next subscriber it
\* invokes, or to the end of the call.
Resume(s, below, fr) ==
  LET c == fr.chan
      pos == Seek(s.chans[c], fr.idx, fr.node)
      at == [fr EXCEPT !.idx = pos.idx, !.node = pos.node]
  IN  IF pos.node # 0 /\ InterruptSeen(s.chans[c])
      THEN [s EXCEPT !.stack = below,
                     !.chans[c].mask = AndClear(@),
                     !.lastCall = PublishDone(at, "undefined", TRUE)]
      ELSE IF pos.node # 0
      THEN [s EXCEPT !.stack = Append(below, at),
                     !.chans[c].callingNode = pos.node,
                     !.lastCall = NoCall]
      ELSE [s EXCEPT !.stack = below,
                     !.chans[c].mask = AndClear(@),
                     !.lastCall = PublishDone(at, IF Rethrows(fr.caught, fr.suppress)
                                                  THEN "threw" ELSE "undefined",
                                              HasBit(s.chans[c].mask, SIG_INT))]

\* A scheduled callback: the deferred publish ("publish") and the callback
\* of the promise ("promise") with the args of the call, the deferred
\* unsubscribe ("unsubscribe") with its fn.
Timer(kind, c, args, payload, opt, fn) ==
  [kind |-> kind, chan |-> c, args |-> args, payload |-> payload, opt |-> opt, fn |-> fn]

\* The record of a Channel.publish call that scheduled a timer.
PublishDeferred(c, result, suppress, payload, opt) ==
  [Call("publish", result, c, 0)
     EXCEPT !.deferred = TRUE,
            !.fr = [NoFrame EXCEPT !.suppress = suppress, !.payload = payload, !.opt = opt]]

\* A Channel.publish that defers whenever any subscriber is running, of its
\* own channel or of another one.
DeferNested(s, c, args, payload, opt, origin) ==
  LET suppress == SuppressErrorsOf(LastArg(args))
  IN  IF s.stack # <<>> \/ HasBit(s.chans[c].mask, PUBLISHING)
      THEN [s EXCEPT !.timers = Append(@, Timer("publish", c, args, payload, opt, "")),
                     !.lastCall = PublishDeferred(c, "undefined", suppress, payload, opt)]
      ELSE Resume([s EXCEPT !.chans[c].mask = OrBit(@, PUBLISHING)],
                  s.stack,
                  [chan |-> c, origin |-> origin, suppress |-> suppress,
                   args |-> SubscriberArgs(args, c), payload |-> payload, opt |-> opt,
                   idx |-> -1, node |-> 0, caught |-> NoErr, log |-> <<>>,
                   snap |-> Order(s.chans[c], s.nodes), late |-> <<>>])

\* A Channel.publish that starts its traversal at once, whatever the
\* PUBLISHING bit says.
PublishInline(s, c, args, payload, opt, origin) ==
  Resume([s EXCEPT !.chans[c].mask = OrBit(@, PUBLISHING)],
         s.stack,
         [chan |-> c, origin |-> origin, suppress |-> SuppressErrorsOf(LastArg(args)),
          args |-> SubscriberArgs(args, c), payload |-> payload, opt |-> opt,
          idx |-> -1, node |-> 0, caught |-> NoErr, log |-> <<>>,
          snap |-> Order(s.chans[c], s.nodes), late |-> <<>>])

\* Channel.publish(args) on channel object c in state s; payload is what
\* the caller of PubSub.publish passed, and origin says whether
\* PubSub.publish ("sync") or a timer ("timer") makes the call.
ChannelPublish(s, c, args, payload, opt, origin) ==
  LET suppress == SuppressErrorsOf(LastArg(args))
  IN  IF HasBit(s.chans[c].mask, PUBLISHING)
      THEN IF suppress
           THEN [s EXCEPT !.timers = Append(@, Timer("publish", c, args, payload, opt, "")),
                          !.lastCall = PublishDeferred(c, "undefined", suppress, payload, opt)]
           ELSE [s EXCEPT !.timers = Append(@, Timer("promise", c, args, payload, opt, "")),
                          !.lastCall = PublishDeferred(c, "promise", suppress, payload, opt)]
      ELSE Resume([s EXCEPT !.chans[c].mask = OrBit(@, PUBLISHING)],
                  s.stack,
                  [chan |-> c, origin |-> origin, suppress |-> suppress,
                   args |-> SubscriberArgs(args, c), payload |-> payload, opt |-> opt,
                   idx |-> -1, node |-> 0, caught |-> NoErr, log |-> <<>>,
                   snap |-> Order(s.chans[c], s.nodes), late |-> <<>>])

\* Whether Channel.publish on c would schedule a timer.
Defers(c) == c # 0 /\ HasBit(chans[c].mask, PUBLISHING)

----------------------------------------------------------------------------
\* PubSub

\* A subscribe that clamps the priority but takes bucket 0 when none is given.
DefaultFirst(priority) ==
  IF ~priority.has THEN 0
  ELSE IF priority.p > 4 THEN 4 ELSE IF priority.p < 0 THEN 0 ELSE priority.p

\* Math.max(0, Math.min(suggestedPriority, 4)) of the priority argument
ClampPriority(priority) ==
  LET suggested == IF priority.has THEN priority.p ELSE 4
      least == IF suggested < 4 THEN suggested ELSE 4
  IN  IF least > 0 THEN least ELSE 0

\* The frames after a subscribe to channel object c has made node n in
\* bucket priority: the traversal of c in progress notes it when it has not
\* passed that bucket.
NoteLate(stk, c, n, priority) ==
  [i \in DOMAIN stk |->
     IF stk[i].chan = c /\ priority >= stk[i].idx
     THEN [stk[i] EXCEPT !.late = Append(@, n)]
     ELSE stk[i]]

\* PubSub.subscribe(channelName, fn, priority, context) in state s
PubSubSubscribe(s, name, fn, priority) ==
  LET isNew == s.channels[name] = 0
      c == IF isNew THEN Len(s.chans) + 1 ELSE s.channels[name]
      chs == IF isNew THEN Append(s.chans, NewChannel(name)) ELSE s.chans
      r == ChannelSubscribe(chs[c], s.nodes, fn, ClampPriority(priority))
  IN  [s EXCEPT !.channels[name] = c,
                !.chans = [chs EXCEPT ![c] = r.ch],
                !.nodes = r.nodes,
                !.stack = IF r.threw THEN @
                          ELSE NoteLate(@, c, Len(r.nodes), ClampPriority(priority)),
                !.lastCall = [Call("subscribe", IF r.threw THEN "threw" ELSE "subscribed",
                                   0, 0)
                                EXCEPT !.input = <<name, fn, priority>>]]

\* PubSub.unsubscribe(channelName, fn) in state s
PubSubUnsubscribe(s, name, fn) ==
  IF s.channels[name] = 0
  THEN [s EXCEPT !.lastCall = Call("unsubscribe", "false", 0, 0)]
  ELSE LET c == s.channels[name]
           r == ChannelUnsubscribe(s.chans[c], s.nodes, fn)
       IN  [s EXCEPT
              !.chans[c] = r.ch,
              !.nodes = r.nodes,
              !.timers = IF r.deferred THEN Append(@, Timer("unsubscribe", c, <<>>, <<>>, <<>>, fn))
                         ELSE @,
              !.channels[name] = IF r.evicted /\ ~hasSubscribers(r.ch) THEN 0 ELSE @,
              !.lastCall = [Call("unsubscribe", IF r.evicted THEN "true" ELSE "false",
                                 0, 0)
                              EXCEPT !.deferred = r.deferred]]

\* A PubSub.publish that makes the channel of a name that has none.
PublishCreates(s, name, payload, opt, default) ==
  IF s.channels[name] = 0
  THEN [s EXCEPT !.channels[name] = Len(s.chans) + 1,
                 !.chans = Append(@, NewChannel(name)),
                 !.lastCall = Call("publish", "undefined", 0, 0)]
  ELSE ChannelPublish(s, s.channels[name], PublishArgs(payload, opt, default),
                      payload, opt, "sync")

\* PubSub.publish(channelName, ...payload, opt) in state s
PubSubPublish(s, name, payload, opt, default) ==
  IF s.channels[name] = 0
  THEN [s EXCEPT !.lastCall = Call("publish", "undefined", 0, 0)]
  ELSE ChannelPublish(s, s.channels[name], PublishArgs(payload, opt, default),
                      payload, opt, "sync")

----------------------------------------------------------------------------
\* The steps

InitWith(ctorOpts) ==
  /\ publishOptions \in ctorOpts
  /\ channels = [n \in Names |-> 0]
  /\ chans = <<>>
  /\ nodes = <<>>
  /\ stack = <<>>
  /\ timers = <<>>
  /\ lastCall = NoCall

\* The running subscriber (the top frame), or NoFrame at top level.
Running == IF stack = <<>> THEN NoFrame ELSE stack[Len(stack)]

\* The Channel objects the running code can hold: those of the registry
\* (subscribe returns the channel) and the last argument of the running
\* subscriber.
Held == ({channels[n] : n \in Names} \cup {Running.chan}) \ {0}

\* Top-level code or the running subscriber calls subscribe.
Subscribe(name, fn, priority) ==
  LET s == PubSubSubscribe(State, name, fn, priority)
  IN  /\ Len(s.nodes) <= MaxNodes
      /\ Commit(s)

\* Top-level code or the running subscriber calls unsubscribe.
Unsubscribe(name, fn) ==
  LET s == PubSubUnsubscribe(State, name, fn)
  IN  /\ Len(s.timers) <= MaxTimers
      /\ Commit(s)

\* Top-level code or the running subscriber calls publish.
Publish(name, payload, opt) ==
  /\ IF Defers(channels[name]) THEN Len(timers) < MaxTimers ELSE Len(stack) < MaxDepth
  /\ Commit(PubSubPublish(State, name, payload, opt, publishOptions))

\* Top-level code or the running subscriber calls channel.interrupt(),
\* alias channel.stopPropagation(), on a Channel object it holds.
Interrupt(c) ==
  Commit([State EXCEPT !.chans[c].mask = OrBit(@, SIG_INT),
                       !.lastCall = Call("interrupt", "undefined", 0, 0)])

\* The running subscriber is over, with error e or with none (NoErr):
\* publish notes the error, clears _callingNode, moves to node.next and
\* goes on.
\* An abrupt end of the traversal at the first error: what the catch block
\* must not do.
AbortOnThrow(nds, fr, e) ==
  [fr EXCEPT !.log = Append(@, [node |-> fr.node, err |-> e]),
             !.caught = IF e = NoErr THEN @ ELSE e,
             !.idx = IF e = NoErr THEN @ ELSE Buckets,
             !.node = IF e = NoErr THEN nds[fr.node].next ELSE 0]

\* The frame after the subscriber of fr.node is over with error e (NoErr:
\* it returned): the try/catch around applyToCallback, then node = node.next.
AfterSubscriber(nds, fr, e) ==
  [fr EXCEPT !.log = Append(@, [node |-> fr.node, err |-> e]),
             !.caught = IF e = NoErr THEN @ ELSE Caught(@, e),
             !.node = NextNode(nds, fr.node)]

Finish(e) ==
  LET fr == Running
  IN  Commit(Resume([State EXCEPT !.chans[fr.chan].callingNode = 0],
                    SubSeq(stack, 1, Len(stack) - 1),
                    AfterSubscriber(nodes, fr, e)))

SubscriberReturns ==
  /\ stack # <<>>
  /\ Finish(NoErr)

\* The running subscriber throws its own error, or lets the error of the
\* publish call it has just made pass.
SubscriberThrows ==
  /\ stack # <<>>
  /\ \E e \in {nodes[Running.node].fn}
                \cup (IF lastCall.op = "publish" /\ lastCall.result = "threw"
                      THEN {lastCall.fr.caught} ELSE {}) : Finish(e)

\* A deferred publish that fires while a subscriber is running.
RunTimerInside ==
  /\ timers # <<>> /\ Head(timers).kind = "publish"
  /\ Commit(ChannelPublish([State EXCEPT !.timers = Tail(@)], Head(timers).chan,
                           Head(timers).args, Head(timers).payload, Head(timers).opt,
                           "timer"))

\* A deferred publish that is put back at the end of the timer queue
\* instead of being run.
HoldTimer ==
  /\ stack = <<>> /\ timers # <<>> /\ Head(timers).kind = "publish"
  /\ Commit([State EXCEPT !.timers = Append(Tail(@), Head(@)),
                          !.lastCall = NoCall])

\* A timer fires (only when no code is running): the deferred publish,
\* the deferred unsubscribe, or the callback of the promise of a publish.
RunDeferredPublish ==
  /\ stack = <<>> /\ timers # <<>> /\ Head(timers).kind = "publish"
  /\ Commit(ChannelPublish([State EXCEPT !.timers = Tail(@)], Head(timers).chan,
                           Head(timers).args, Head(timers).payload, Head(timers).opt,
                           "timer"))

RunDeferredUnsubscribe ==
  /\ stack = <<>> /\ timers # <<>> /\ Head(timers).kind = "unsubscribe"
  /\ LET t == Head(timers)
         r == ChannelUnsubscribe(chans[t.chan], nodes, t.fn)
     IN  Commit([State EXCEPT
                   !.chans[t.chan] = r.ch,
                   !.nodes = r.nodes,
                   !.timers = IF r.deferred THEN Append(Tail(@), t) ELSE Tail(@),
                   !.lastCall = Call("deferredUnsubscribe",
                                     IF r.evicted THEN "true" ELSE "false", 0, 0)])

\* () => { try { this.publish.bind(this); resolve(); } catch(e) { reject(e); } }
\* bind makes a function and calls nothing: no subscriber runs, nothing is
\* thrown, the promise resolves.
RunPromiseCallback ==
  /\ stack = <<>> /\ timers # <<>> /\ Head(timers).kind = "promise"
  /\ Commit([State EXCEPT !.timers = Tail(@),
                          !.lastCall = Call("promiseCallback", "resolved", 0, 0)])

Init == InitWith(DefaultCtorOpts)

Next ==
  \/ \E in \in SubscribeInputs : Subscribe(in[1], in[2], in[3])
  \/ \E name \in Names, fn \in Fns : Unsubscribe(name, fn)
  \/ \E name \in Names, in \in MainPublishInputs : Publish(name, in[1], in[2])
  \/ \E c \in Held : Interrupt(c)
  \/ SubscriberReturns
  \/ SubscriberThrows
  \/ RunDeferredPublish
  \/ RunDeferredUnsubscribe
  \/ RunPromiseCallback

Spec == Init /\ [][Next]_vars

\* The specification of the publish arguments: a PubSub built with any
\* options object, published to with every shape of argument list; the
\* subscribers publish, interrupt, return and throw.
InitArgs == InitWith(CtorOpts)

NextArgs ==
  \/ stack = <<>> /\ \E in \in ArgsSubscribeInputs : Subscribe(in[1], in[2], in[3])
  \/ \E in \in AllPublishInputs : Publish("foo", in[1], in[2])
  \/ stack # <<>> /\ Interrupt(Running.chan)
  \/ SubscriberReturns
  \/ SubscriberThrows
  \/ RunDeferredPublish
  \/ RunPromiseCallback

SpecArgs == InitArgs /\ [][NextArgs]_vars

\* The specification of the subscriptions: one function is subscribed under
\* two names and with two priorities, beside it a second one with the same
\* hash id; top-level code and the subscribers subscribe and unsubscribe.
\* The priorities are none, one below the range, one inside and one above.
SubsSubscribeInputs ==
  {<<"foo", "H1", NoPriority>>, <<"foo", "H1", Priority(-1)>>,
   <<"bar", "H1", Priority(2)>>, <<"foo", "H2", Priority(-1)>>,
   <<"bar", "H2", Priority(7)>>}

NextSubs ==
  \/ \E in \in SubsSubscribeInputs : Subscribe(in[1], in[2], in[3])
  \/ \E name \in Names : Unsubscribe(name, "H1")
  \/ stack = <<>> /\ Publish("foo", <<Val("a")>>, <<>>)
  \/ SubscriberReturns
  \/ RunDeferredUnsubscribe

SpecSubs == Init /\ [][NextSubs]_vars

\* The specification of two channels: top-level code subscribes two
\* functions to foo and one to bar, as the README's "Ordering of subscribers"
\* does; top-level code and the subscribers publish both names, and the
\* running subscriber may interrupt a channel it holds.
MaxCrossNodes == 3

CrossSubscribeInputs ==
  {<<"foo", "H1", NoPriority>>, <<"foo", "H2", Priority(7)>>,
   <<"bar", "H3", NoPriority>>}

SubscribeAtTop(name, fn, priority) ==
  /\ stack = <<>>
  /\ \E s \in {PubSubSubscribe(State, name, fn, priority)} :
       Len(s.nodes) <= MaxCrossNodes /\ Commit(s)

NextCross ==
  \/ \E in \in CrossSubscribeInputs : SubscribeAtTop(in[1], in[2], in[3])
  \/ \E name \in Names : Publish(name, <<Val("a")>>, <<>>)
  \/ stack # <<>> /\ \E c \in Held : Interrupt(c)
  \/ SubscriberReturns
  \/ RunDeferredPublish

SpecCross == Init /\ [][NextCross]_vars

----------------------------------------------------------------------------
\* The properties

\* The last step completed a Channel.publish call that ran its traversal.
Ran == lastCall.op = "publish" /\ lastCall.fr.chan # 0

\* The nodes a publish call has invoked, in the order of the invocations.
LogNodes(fr) == [i \in DOMAIN fr.log |-> fr.log[i].node]

\* The positions of the log of fr where the subscriber threw.
Throwers(fr) == {i \in DOMAIN fr.log : fr.log[i].err # NoErr}

\* The channel of fr has the nodes, in the order, that it had when the
\* traversal of fr started: no subscriber has mutated it.
Unmutated(fr) == Order(chans[fr.chan], nodes) = fr.snap

\* Node m is due before node n: in a lower bucket, or in the same bucket
\* and subscribed earlier (node ids grow with the subscribe calls).
Before(m, n) ==
  \/ nodes[m].priority < nodes[n].priority
  \/ nodes[m].priority = nodes[n].priority /\ m < n

\* C1: a publish that runs to its end on a channel that its subscribers do
\* not mutate invokes exactly the registered nodes, bucket 0 first and bucket
\* 4 last, and within a bucket the node subscribed first before the others.
C1_Order ==
  Ran /\ ~lastCall.interrupted /\ Unmutated(lastCall.fr) =>
    /\ LogNodes(lastCall.fr) = lastCall.fr.snap
    /\ \A i, j \in DOMAIN lastCall.fr.log :
         i < j => Before(lastCall.fr.log[i].node, lastCall.fr.log[j].node)

\* A publish has invoked two nodes, the one subscribed last first because
\* it is in the lower bucket.
C1_Witness ==
  /\ Ran /\ ~lastCall.interrupted /\ Unmutated(lastCall.fr)
  /\ Len(lastCall.fr.log) = 2
  /\ lastCall.fr.log[1].node > lastCall.fr.log[2].node

\* C2: a publish that no interrupt ends has invoked every node that was
\* registered when it started and is registered when it returns, whatever the
\* subscribers before it threw.
C2_SiblingsRun ==
  Ran /\ ~lastCall.interrupted =>
    \A n \in Range(lastCall.fr.snap) \cap Range(Order(chans[lastCall.fr.chan], nodes)) :
      n \in Range(LogNodes(lastCall.fr))

\* The first subscriber threw and the second one was invoked after it.
C2_Witness ==
  /\ Ran /\ ~lastCall.interrupted
  /\ Len(lastCall.fr.log) = 2
  /\ lastCall.fr.log[1].err # NoErr

C4_RaisesAfterAll ==
  Ran /\ lastCall.fr.origin = "sync" /\ ~lastCall.fr.suppress
      /\ Throwers(lastCall.fr) # {} =>
    /\ lastCall.result = "threw"
    /\ chans[lastCall.fr.chan].mask = CLEAR_BITS
    /\ Unmutated(lastCall.fr) => LogNodes(lastCall.fr) = lastCall.fr.snap

\* C5: the error a publish throws is the error of the last subscriber that
\* threw; the errors before it are not propagated.
C5_LastError ==
  Ran /\ lastCall.result = "threw" =>
    /\ Throwers(lastCall.fr) # {}
    /\ \E i \in Throwers(lastCall.fr) :
         /\ \A j \in Throwers(lastCall.fr) : j <= i
         /\ lastCall.fr.caught = lastCall.fr.log[i].err

\* Two subscribers threw two different errors and publish threw.
C5_Witness ==
  /\ Ran /\ lastCall.result = "threw"
  /\ Len(lastCall.fr.log) = 2
  /\ lastCall.fr.log[1].err # NoErr /\ lastCall.fr.log[2].err # NoErr
  /\ lastCall.fr.log[1].err # lastCall.fr.log[2].err

\* The suppressErrors that a PubSub.publish call with the trailing options
\* opt asks for: the flag of opt when the call gives one, else the flag of
\* the options of the constructor, and true when those have no flag.
FlagAskedFor(opt) == IF opt # <<>> THEN opt[1].s # "F" ELSE publishOptions.s # "F"

\* C6: the suppression in effect for a publish call on an existing channel
\* is the flag of the call when it gives one, else the flag the PubSub was
\* built with; a publish that runs to its end throws exactly when a
\* subscriber threw and suppression is not in effect.
C6_FlagInEffect ==
  lastCall.op = "publish" /\ lastCall.chan # 0 =>
    /\ lastCall.fr.suppress = FlagAskedFor(lastCall.fr.opt)
    /\ Ran /\ ~lastCall.interrupted =>
         (lastCall.result = "threw" <=>
            ~FlagAskedFor(lastCall.fr.opt) /\ Throwers(lastCall.fr) # {})

\* On a PubSub built with {suppressErrors: false}, a publish called with
\* {suppressErrors: true} returned normally though its subscriber threw.
C6_Witness ==
  /\ Ran /\ ~lastCall.interrupted
  /\ publishOptions = Opt("F") /\ lastCall.fr.opt = <<Opt("T")>>
  /\ Throwers(lastCall.fr) # {}
  /\ lastCall.result = "undefined"

\* C7: every subscriber is applied to the payload of the publish call
\* followed by the Channel object, and to no options object.  (The code
\* leaves the options of a PubSub built with {} in the argument list.)
C7_HandlerArgs ==
  \A i \in DOMAIN stack :
    stack[i].args = stack[i].payload \o <<ChanArg(stack[i].chan)>>

\* C8: once the interrupt flag of the channel of a publish call in progress
\* is set, that call invokes no further subscriber: the subscriber it is in
\* goes on, and when it is over the call returns with this subscriber as
\* the last one invoked.
C8_InterruptStops ==
  [][\A i \in DOMAIN stack :
       HasBit(chans[stack[i].chan].mask, SIG_INT) =>
         IF i <= Len(stack')
         THEN Len(stack'[i].log) = Len(stack[i].log)
         ELSE /\ i = Len(stack)
              /\ lastCall'.op = "publish" /\ lastCall'.interrupted
              /\ Len(lastCall'.fr.log) = Len(stack[i].log) + 1]_vars

\* A publish call returned on the interrupt flag after the first of two
\* registered subscribers.
C8_Witness ==
  /\ Ran /\ lastCall.interrupted /\ Unmutated(lastCall.fr)
  /\ Len(lastCall.fr.log) = 1 /\ Len(lastCall.fr.snap) = 2

\* C9: no publish of a channel name runs its subscribers inside the call
\* frame of a subscriber of that name: the publish calls on the stack are
\* of different names.  (The code runs the nested publish at once when the
\* subscriber has made the registry replace the Channel object.)
C9_NoNestedRun ==
  \A i, j \in DOMAIN stack :
    i < j => chans[stack[i].chan].namespace # chans[stack[j].chan].namespace

\* C10: the callback of the promise of a re-entrant publish runs the
\* traversal of the channel, and settles the promise as that run ended:
\* rejected when it threw, resolved otherwise.  (The code binds publish
\* without calling it and resolves.)
C10_DeferredRunSettles ==
  lastCall.op = "promiseCallback" =>
    /\ lastCall.fr.chan # 0
    /\ lastCall.result = "rejected" <=> Throwers(lastCall.fr) # {}

\* The nodes registered under a channel name, in the order of a traversal:
\* those of the Channel object that the registry holds for the name.
Registered(name) ==
  IF channels[name] = 0 THEN <<>> ELSE Order(chans[channels[name]], nodes)

\* C11: the deferred run of a re-entrant publish delivers to the subscribers
\* then registered under the channel name, whatever was interrupted before:
\* a deferred run that has invoked no subscriber found none registered.
\* (The code runs it on the Channel object of the deferring call, with the
\* interrupt flag that object has at that moment.)
C11_DeferredRunDelivers ==
  Ran /\ lastCall.fr.origin = "timer" /\ lastCall.fr.log = <<>> =>
    Registered(chans[lastCall.fr.chan].namespace) = <<>>

\* The functions of a sequence of nodes.
FnsOf(seq) == {nodes[seq[i]].fn : i \in DOMAIN seq}

\* C12: a subscribe call throws the duplicate error exactly when its
\* function is registered under its channel name at the call, whatever the
\* priority of the call and whatever is registered under other names.
C12_Duplicate ==
  [][lastCall'.op = "subscribe" =>
       (lastCall'.result = "threw" <=>
          lastCall'.input[2] \in FnsOf(Registered(lastCall'.input[1])))]_vars

\* A subscribe of H1 under foo with the default priority threw because H1
\* is registered there in bucket 0, while H1 is registered under bar too.
C12_Witness ==
  /\ lastCall.op = "subscribe" /\ lastCall.result = "threw"
  /\ lastCall.input = <<"foo", "H1", NoPriority>>
  /\ \E i \in DOMAIN Registered("foo") :
       nodes[Registered("foo")[i]].fn = "H1" /\ nodes[Registered("foo")[i]].priority = 0
  /\ "H1" \in FnsOf(Registered("bar"))

\* The functions of the nodes registered under a name, in the order of a
\* traversal.
RegisteredFns(name) == [i \in DOMAIN Registered(name) |-> nodes[Registered(name)[i]].fn]

\* The node registered under name that holds fn, 0 when there is none.
Target(name, fn) ==
  IF fn \in FnsOf(Registered(name))
  THEN CHOOSE n \in Range(Registered(name)) : nodes[n].fn = fn
  ELSE 0

\* The step is the call unsubscribe(name, fn), and fn is held by the node
\* that the publish in progress on the channel of the name is invoking.
SelfUnsubscribe(name, fn) ==
  /\ lastCall'.op = "unsubscribe"
  /\ Target(name, fn) # 0
  /\ chans[channels[name]].callingNode = Target(name, fn)
  /\ Unsubscribe(name, fn)

\* The publish that returned has invoked, at position i of its log, a node
\* whose deferred removal is waiting in the timer queue.
RemovalPending(fr, i) ==
  \E k \in DOMAIN timers :
    /\ timers[k].kind = "unsubscribe" /\ timers[k].chan = fr.chan
    /\ timers[k].fn = nodes[fr.log[i].node].fn

\* C13 as the spec states it: unsubscribe of the node that is being invoked
\* returns false and leaves the node in place.
C13_AlwaysDeferred ==
  [][\A name \in Names, fn \in Fns :
       SelfUnsubscribe(name, fn) =>
         lastCall'.result = "false" /\ RegisteredFns(name)' = RegisteredFns(name)]_vars

\* C13: unsubscribe of the node that a publish is invoking, on a channel
\* that has not been interrupted, returns false, leaves every node linked
\* where it was and the node the calling one, and appends a timer that will
\* unsubscribe the function from that Channel object; the publish, when no
\* interrupt ends it, has then invoked after that node every node that
\* followed it and is still registered.
C13_SelfUnsubscribeDeferred ==
  [][/\ \A name \in Names, fn \in Fns :
          SelfUnsubscribe(name, fn) /\ ~HasBit(chans[channels[name]].mask, SIG_INT) =>
            /\ lastCall'.result = "false"
            /\ RegisteredFns(name)' = RegisteredFns(name)
            /\ (chans[channels[name]].callingNode = Target(name, fn))'
            /\ Len(timers') = Len(timers) + 1
            /\ timers'[Len(timers')].kind = "unsubscribe"
            /\ timers'[Len(timers')].fn = fn
            /\ timers'[Len(timers')].chan = channels'[name]
     /\ (Ran /\ ~lastCall.interrupted =>
           \A i \in DOMAIN lastCall.fr.log, j, k \in DOMAIN lastCall.fr.snap :
             /\ RemovalPending(lastCall.fr, i)
             /\ lastCall.fr.snap[j] = lastCall.fr.log[i].node /\ j < k
             /\ lastCall.fr.snap[k] \in Range(Order(chans[lastCall.fr.chan], nodes))
             => \E m \in DOMAIN lastCall.fr.log :
                  i < m /\ lastCall.fr.log[m].node = lastCall.fr.snap[k])'
    ]_vars

\* A publish has returned: its first subscriber unsubscribed itself, the
\* removal is waiting, and the subscriber after it was invoked.
C13_Witness ==
  /\ Ran /\ ~lastCall.interrupted
  /\ Len(lastCall.fr.log) = 2 /\ lastCall.fr.snap = LogNodes(lastCall.fr)
  /\ RemovalPending(lastCall.fr, 1)
  /\ Order(chans[lastCall.fr.chan], nodes) = lastCall.fr.snap

\* C14: a subscriber whose unsubscribe of itself returned false is not
\* invoked by a later publish: no node is invoked while the deferred
\* removal of its function from its channel waits in the timer queue.
\* (The removal is a timer; a publish made before the timer fires finds the
\* node in place.)
C14_RemovedBeforeNextPublish ==
  stack # <<>> /\ lastCall = NoCall =>
    ~\E k \in DOMAIN timers :
       /\ timers[k].kind = "unsubscribe" /\ timers[k].chan = Running.chan
       /\ timers[k].fn = nodes[Running.node].fn

\* The sequence seq without its elements equal to x.
Without(seq, x) == SelectSeq(seq, LAMBDA y : y # x)

\* The node that a publish has just invoked is linked in the channel that
\* the publish traverses.
InvokedIsRegistered ==
  stack # <<>> /\ lastCall = NoCall =>
    Running.node \in Range(Order(chans[Running.chan], nodes))

\* C15: an unsubscribe call returns true exactly when it has spliced a node
\* out; when its function is registered under its name in a node that
\* no publish is invoking, it returns true and the functions registered
\* afterwards are those registered before, in their order, without that
\* one, under every name; and a publish invokes linked nodes only, so the
\* removed node is not invoked again.
C15_Unsubscribe ==
  [][/\ lastCall'.op = "unsubscribe" =>
          (lastCall'.result = "true" <=>
             \E name \in Names : RegisteredFns(name)' # RegisteredFns(name))
     /\ \A name \in Names, fn \in Fns :
          /\ lastCall'.op = "unsubscribe"
          /\ Target(name, fn) # 0
          /\ chans[channels[name]].callingNode # Target(name, fn)
          /\ Unsubscribe(name, fn)
          => /\ lastCall'.result = "true"
             /\ RegisteredFns(name)' = Without(RegisteredFns(name), fn)
             /\ \A other \in Names \ {name} : RegisteredFns(other)' = RegisteredFns(other)
     /\ InvokedIsRegistered'
    ]_vars

\* A subscriber has unsubscribed the node after it, and another node stays
\* registered.
C15_Witness ==
  /\ lastCall.op = "unsubscribe" /\ lastCall.result = "true"
  /\ stack # <<>> /\ Running.snap # <<>>
  /\ Running.node = Running.snap[1]
  /\ Len(Running.snap) = 2
  /\ Order(chans[Running.chan], nodes) = <<Running.node>>

\* C16 as the spec states it: a publish that no interrupt ends has invoked
\* every node that is registered when it returns, those subscribed during
\* the publish at any priority included.
C16_LateAnyPriority ==
  Ran /\ ~lastCall.interrupted =>
    Range(Order(chans[lastCall.fr.chan], nodes)) \subseteq Range(LogNodes(lastCall.fr))

\* C16: a publish that no interrupt ends has invoked every node that a
\* subscriber added during the publish to the bucket then traversed or to a
\* later one and that is registered when the publish returns.
C16_LateSubscriber ==
  Ran /\ ~lastCall.interrupted =>
    Range(lastCall.fr.late) \cap Range(Order(chans[lastCall.fr.chan], nodes))
      \subseteq Range(LogNodes(lastCall.fr))

\* The only node registered when the publish started has subscribed a
\* second one, and the publish has invoked both.
C16_Witness ==
  /\ Ran /\ ~lastCall.interrupted
  /\ Len(lastCall.fr.snap) = 1 /\ Len(lastCall.fr.late) = 1
  /\ LogNodes(lastCall.fr) = lastCall.fr.snap \o lastCall.fr.late
  /\ Range(lastCall.fr.late) \subseteq Range(Order(chans[lastCall.fr.chan], nodes))

\* A publish that an interrupt ended has returned to top-level code.
InterruptedReturn == Ran /\ lastCall.interrupted /\ stack = <<>>

\* C17: when a publish that was interrupted returns, its channel has no
\* bit set and no calling node; and the publish of that channel that
\* follows starts a traversal of every registered node at the first one.
C17_InterruptIsOver ==
  [][/\ (Ran /\ lastCall.interrupted =>
           /\ chans[lastCall.fr.chan].mask = CLEAR_BITS
           /\ chans[lastCall.fr.chan].callingNode = 0)'
     /\ \A name \in Names :
          InterruptedReturn /\ channels[name] = lastCall.fr.chan =>
            /\ stack' # <<>> /\ Running'.chan = channels'[name] =>
                 /\ Running'.snap = Registered(name)'
                 /\ Running'.node = Head(Registered(name)')
                 /\ Running'.log = <<>>
            /\ stack' = <<>> /\ lastCall'.op = "publish"
                 /\ lastCall'.fr.chan = channels'[name] => Registered(name)' = <<>>
    ]_vars

\* A publish has returned on the interrupt flag after the first of the two
\* subscribers that are registered for the next publish.
C17_Witness ==
  /\ InterruptedReturn
  /\ channels[chans[lastCall.fr.chan].namespace] = lastCall.fr.chan
  /\ Len(lastCall.fr.log) = 1
  /\ Len(Registered(chans[lastCall.fr.chan].namespace)) = 2

\* C18: a publish that ends with the interrupt flag up, in which a
\* subscriber threw and whose errors are not suppressed, throws to its
\* caller.  (The return that the flag causes at the top of the while loop
\* comes before the throw at the end of the method.)
C18_InterruptRethrows ==
  Ran /\ lastCall.interrupted /\ ~lastCall.fr.suppress
      /\ Throwers(lastCall.fr) # {} =>
    lastCall.result = "threw"

\* C19: a publish that ends with the interrupt flag up and in which no
\* subscriber threw returns undefined, whether its errors are suppressed
\* or not.
C19_InterruptReturns ==
  Ran /\ lastCall.interrupted /\ Throwers(lastCall.fr) = {} =>
    lastCall.result = "undefined"

\* A publish without suppression has returned undefined on the interrupt
\* flag, after a subscriber that did not throw and before another one.
C19_Witness ==
  /\ Ran /\ lastCall.interrupted /\ ~lastCall.fr.suppress
  /\ Len(lastCall.fr.log) = 1 /\ Throwers(lastCall.fr) = {}
  /\ Len(Order(chans[lastCall.fr.chan], nodes)) = 2
  /\ lastCall.result = "undefined"

\* The running subscriber has been spliced out of the channel that is
\* invoking it and its function has not been subscribed to the name of the
\* channel since; an unsubscribe call has just returned true.
SelfRemoved ==
  /\ stack # <<>>
  /\ lastCall.op = "unsubscribe" /\ lastCall.result = "true"
  /\ Running.node \notin Range(Order(chans[Running.chan], nodes))
  /\ nodes[Running.node].fn \notin FnsOf(Registered(chans[Running.chan].namespace))

\* C20: on a channel that has been interrupted, unsubscribe of the node
\* being invoked returns true and the function is no longer registered
\* under the name when it returns; a subscribe of the running subscriber's
\* function to the name of its channel that follows does not throw and
\* registers the function.
C20_ResubscribeAfterInterrupt ==
  [][/\ \A name \in Names, fn \in Fns :
          SelfUnsubscribe(name, fn) /\ HasBit(chans[channels[name]].mask, SIG_INT) =>
            /\ lastCall'.result = "true"
            /\ fn \notin FnsOf(Registered(name))'
     /\ \A name \in Names, fn \in Fns :
          /\ SelfRemoved
          /\ name = chans[Running.chan].namespace /\ fn = nodes[Running.node].fn
          /\ lastCall'.op = "subscribe"
          /\ lastCall'.input[1] = name /\ lastCall'.input[2] = fn
          => /\ lastCall'.result = "subscribed"
             /\ fn \in FnsOf(Registered(name))'
    ]_vars

\* The running subscriber has interrupted its channel, unsubscribed itself
\* and subscribed its function again: the function is registered in a node
\* that is not the one being invoked.
C20_Witness ==
  /\ stack # <<>>
  /\ lastCall.op = "subscribe" /\ lastCall.result = "subscribed"
  /\ lastCall.input[1] = chans[Running.chan].namespace
  /\ lastCall.input[2] = nodes[Running.node].fn
  /\ HasBit(chans[Running.chan].mask, SIG_INT)
  /\ Running.node \notin Range(Registered(lastCall.input[1]))
  /\ lastCall.input[2] \in FnsOf(Registered(lastCall.input[1]))

\* C21: when no publish is in progress and no timer is waiting, every
\* Channel object that the registry holds has a subscriber.  (The deferred
\* removal is Channel.unsubscribe bound to the Channel object: it empties
\* the channel and the registry keeps it.)
C21_NoEmptyChannel ==
  stack = <<>> /\ timers = <<>> =>
    \A name \in Names : channels[name] # 0 => hasSubscribers(chans[channels[name]])

\* The step is a publish of name made by the running subscriber, a
\* subscriber of a channel of another name, while the name has a channel.
NestedPublish(name) ==
  /\ stack # <<>>
  /\ chans[Running.chan].namespace # name
  /\ channels[name] # 0
  /\ Publish(name, <<Val("a")>>, <<>>)

\* C22 as the spec states it: a publish of a name made inside a subscriber
\* of another name is never deferred.
C22_NestedNeverDeferred ==
  [][\A name \in Names : NestedPublish(name) => ~lastCall'.deferred]_vars

\* C22: a publish of a name made inside a subscriber of another name, when
\* no publish of that name's channel is in progress further down the call
\* stack, is not deferred: it invokes the first registered node at once, in
\* a frame above the caller's; no frame below the top one invokes anything;
\* and when the nested publish returns to the subscriber, uninterrupted and
\* on an unmutated channel, it has invoked every registered node while the
\* calling subscriber is still the one its channel is invoking.
C22_NestedRunsInside ==
  [][/\ \A name \in Names :
          NestedPublish(name) /\ ~HasBit(chans[channels[name]].mask, PUBLISHING) =>
            /\ ~lastCall'.deferred
            /\ Registered(name) # <<>> /\ ~HasBit(chans[channels[name]].mask, SIG_INT) =>
                 /\ Len(stack') = Len(stack) + 1
                 /\ Running'.chan = channels'[name]
                 /\ Running'.node = Head(Registered(name)')
     /\ \A i \in DOMAIN stack :
          i < Len(stack) /\ i <= Len(stack') => Len(stack'[i].log) = Len(stack[i].log)
     /\ (Ran /\ stack # <<>> /\ lastCall.fr.origin = "sync"
             /\ ~lastCall.interrupted /\ Unmutated(lastCall.fr) =>
           /\ LogNodes(lastCall.fr) = lastCall.fr.snap
           /\ chans[Running.chan].callingNode = Running.node
           /\ Running.node \notin Range(LogNodes(Running)))'
    ]_vars

\* The README's order: the first subscriber of foo has published bar, the
\* subscriber of bar has been invoked and the publish of bar has returned,
\* and the second subscriber of foo has not been invoked yet.
C22_Witness ==
  /\ Ran /\ stack # <<>> /\ ~lastCall.interrupted
  /\ chans[lastCall.fr.chan].namespace = "bar"
  /\ Len(lastCall.fr.log) = 1 /\ LogNodes(lastCall.fr) = lastCall.fr.snap
  /\ chans[Running.chan].namespace = "foo"
  /\ Len(Running.snap) = 2 /\ Running.node = Running.snap[1] /\ Running.log = <<>>

\* The name of the channel of a frame.
NameOf(fr) == chans[fr.chan].namespace

NothingMoves ==
  /\ \A n \in Names : (channels'[n] = 0) = (channels[n] = 0)
  /\ \A n \in Names : RegisteredFns(n)' = RegisteredFns(n)
  /\ Len(chans') <= Len(chans)
  /\ Len(stack') = Len(stack)
  /\ \A i \in DOMAIN stack :
       /\ Len(stack'[i].log) = Len(stack[i].log)
       /\ nodes'[stack'[i].node].fn = nodes[stack[i].node].fn
  /\ Len(timers') = Len(timers)

\* C24: a publish of a name that is no key of the registry returns
\* undefined, invokes no subscriber, schedules nothing and creates no
\* channel.
C24_PublishNoChannel ==
  [][\A name \in Names, in \in MainPublishInputs :
       /\ channels[name] = 0 /\ lastCall'.op \in {"publish", "none"}
       /\ Publish(name, in[1], in[2])
       =>
         /\ lastCall'.op = "publish" /\ lastCall'.result = "undefined"
         /\ ~lastCall'.deferred /\ lastCall'.fr = NoFrame
         /\ NothingMoves]_vars

\* A running subscriber has published a name that has no channel, and the
\* call has returned undefined.
C24_Witness ==
  /\ lastCall = Call("publish", "undefined", 0, 0)
  /\ stack # <<>> /\ channels["bar"] = 0 /\ chans # <<>>

\* The identity index of the channel of a name: for every hash id that is a
\* key, the functions of its nodes.
IndexFns(name) ==
  IF channels[name] = 0 THEN <<>>
  ELSE [k \in DOMAIN chans[channels[name]].fnHashMap |->
          [i \in DOMAIN chans[channels[name]].fnHashMap[k] |->
             nodes[chans[channels[name]].fnHashMap[k][i]].fn]]

\* C25: an unsubscribe of a name that has no channel, or of a function that
\* is not registered under the name, returns false, schedules nothing and
\* leaves the registry, the subscribers and the index of every name, the
\* publishes in progress and the timers as they are.
C25_UnsubscribeUnknown ==
  [][\A name \in Names, fn \in Fns :
       /\ Target(name, fn) = 0 /\ lastCall'.op = "unsubscribe"
       /\ Unsubscribe(name, fn)
       => /\ lastCall'.result = "false" /\ ~lastCall'.deferred
          /\ NothingMoves
          /\ \A n \in Names : IndexFns(n)' = IndexFns(n)]_vars

\* An unsubscribe of H1 has returned false without deferring anything
\* while bar has no channel and foo has one subscriber, H2, whose hash id is
\* that of H1.
C25_Witness ==
  /\ lastCall.op = "unsubscribe" /\ lastCall.result = "false" /\ ~lastCall.deferred
  /\ RegisteredFns("foo") = <<"H2">> /\ channels["bar"] = 0
  /\ hashFn("H1") \in DOMAIN chans[channels["foo"]].fnHashMap

\* The bucket a subscribe call with this priority argument is to use.
BucketOf(priority) ==
  IF ~priority.has THEN 4
  ELSE IF priority.p < 0 THEN 0
  ELSE IF priority.p > 4 THEN 4
  ELSE priority.p

\* The nodes of bucket p of the channel of a name, from the head on.
BucketNodes(name, p) ==
  IF channels[name] = 0 THEN {}
  ELSE Range(Chain(nodes, BucketHead(chans[channels[name]], p)))

\* C26: a subscribe call that returns has made a node that is linked in the
\* bucket of its priority argument, clamped to 0..4 or 4 when there is no
\* numeric priority, and that carries this bucket as its priority.
C26_Clamp ==
  [][\A in \in SubsSubscribeInputs :
       lastCall'.op = "subscribe" /\ lastCall'.result = "subscribed"
         /\ lastCall'.input = in =>
       (/\ Target(in[1], in[2]) # 0
        /\ nodes[Target(in[1], in[2])].priority = BucketOf(in[3])
        /\ Target(in[1], in[2]) \in BucketNodes(in[1], BucketOf(in[3])))']_vars

\* H2 has been subscribed with priority 7 and is in bucket 4, beside H1
\* that was subscribed with priority 2 and is in bucket 2.
C26_Witness ==
  /\ lastCall.op = "subscribe" /\ lastCall.result = "subscribed"
  /\ lastCall.input = <<"bar", "H2", Priority(7)>>
  /\ Target("bar", "H2") \in BucketNodes("bar", 4)
  /\ Target("bar", "H1") \in BucketNodes("bar", 2)

----------------------------------------------------------------------------
\* The lists of one channel: three subscribers of "foo", two of them with
\* the same hash id, in one bucket or two; top-level code subscribes and
\* publishes, top-level code and the subscribers unsubscribe any of them.
LinksSubscribeInputs ==
  {<<"foo", "H1", NoPriority>>, <<"foo", "H2", NoPriority>>,
   <<"foo", "H3", NoPriority>>, <<"foo", "H3", Priority(0)>>}

NextLinks ==
  \/ \E in \in LinksSubscribeInputs : SubscribeAtTop(in[1], in[2], in[3])
  \/ \E fn \in Fns : Unsubscribe("foo", fn)
  \/ stack = <<>> /\ Publish("foo", <<Val("a")>>, <<>>)
  \/ SubscriberReturns
  \/ RunDeferredUnsubscribe

SpecLinks == Init /\ [][NextLinks]_vars

\* The nodes that are linked in a bucket of a Channel object.
LinkedNodes == UNION {Range(Order(chans[c], nodes)) : c \in DOMAIN chans}

\* C27: for every node linked in a bucket, prev.next and next.prev are the
\* node itself where prev and next exist, and the head of a bucket has no
\* prev; every node that is in no bucket any more has neither prev nor next.
C27_Links ==
  /\ \A c \in DOMAIN chans : \A p \in 0..(Buckets - 1) :
       BucketHead(chans[c], p) # 0 => nodes[BucketHead(chans[c], p)].prev = 0
  /\ \A n \in LinkedNodes :
       /\ nodes[n].prev # 0 => nodes[nodes[n].prev].next = n
       /\ nodes[n].next # 0 => nodes[nodes[n].next].prev = n
  /\ \A n \in DOMAIN nodes \ LinkedNodes : nodes[n].prev = 0 /\ nodes[n].next = 0

\* During a publish to H1, H2 and H3 of one bucket, H2 has been removed
\* from the middle of the list: H1 and H3 are linked to each other and the
\* node of H2 is still held by the traversal.
C27_Witness ==
  /\ stack # <<>> /\ lastCall.op = "unsubscribe" /\ lastCall.result = "true"
  /\ RegisteredFns("foo") = <<"H1", "H3">>
  /\ nodes[Registered("foo")[1]].next = Registered("foo")[2]
  /\ \E n \in DOMAIN nodes \ LinkedNodes : nodes[n].fn = "H2"

\* The nodes held in _fnHashMap of a Channel object.
IndexNodes(ch) == UNION {Range(ch.fnHashMap[k]) : k \in DOMAIN ch.fnHashMap}

\* C28: for every Channel object, the nodes of _fnHashMap are the nodes
\* reachable from the heads of the buckets, each once and under the hash id
\* of its function; each node is in the bucket of its own priority and in
\* no other; no function is held by two nodes; and hasSubscribers() is true
\* exactly when some bucket has a head.
C28_IndexIsLists ==
  \A c \in DOMAIN chans :
    LET ch == chans[c]
        order == Order(ch, nodes)
    IN  /\ IndexNodes(ch) = Range(order)
        /\ \A k \in DOMAIN ch.fnHashMap :
             /\ ch.fnHashMap[k] # <<>>
             /\ \A i, j \in DOMAIN ch.fnHashMap[k] :
                  ch.fnHashMap[k][i] = ch.fnHashMap[k][j] => i = j
             /\ \A i \in DOMAIN ch.fnHashMap[k] : hashFn(nodes[ch.fnHashMap[k][i]].fn) = k
        /\ \A i, j \in DOMAIN order : order[i] = order[j] => i = j
        /\ \A p \in 0..(Buckets - 1) :
             \A n \in Range(Chain(nodes, BucketHead(ch, p))) : nodes[n].priority = p
        /\ \A n1, n2 \in IndexNodes(ch) : nodes[n1].fn = nodes[n2].fn => n1 = n2
        /\ hasSubscribers(ch) <=> \E p \in 0..(Buckets - 1) : BucketHead(ch, p) # 0

\* A running subscriber has removed H3 from bucket 0 while H1 and H2, which
\* have the same hash id, stay in bucket 4 and in one array of the index.
C28_Witness ==
  /\ stack # <<>> /\ lastCall.op = "unsubscribe" /\ lastCall.result = "true"
  /\ \E n \in DOMAIN nodes \ LinkedNodes : nodes[n].fn = "H3" /\ nodes[n].priority = 0
  /\ RegisteredFns("foo") = <<"H1", "H2">>
  /\ Len(chans[channels["foo"]].fnHashMap[hashFn("H1")]) = 2
  /\ hasSubscribers(chans[channels["foo"]])

\* A publish traversal of Channel object c is in progress.
InProgress(c) == \E i \in DOMAIN stack : stack[i].chan = c

\* C29: a Channel object that no publish traversal is in progress on is
\* idle: the publishing bit and the interrupted bit are clear and no node is
\* the calling node, whoever called interrupt() on it and however its last
\* publish returned.
C29_IdleIsClear ==
  \A c \in DOMAIN chans :
    ~InProgress(c) => chans[c].mask = CLEAR_BITS /\ chans[c].callingNode = 0

\* Every publish in progress is the only one on its Channel object, has
\* set the publishing bit, and is invoking the calling node of the object;
\* an object without a publish in progress has no calling node.
OneTraversal ==
  /\ \A i, j \in DOMAIN stack : stack[i].chan = stack[j].chan => i = j
  /\ \A i \in DOMAIN stack :
       /\ HasBit(chans[stack[i].chan].mask, PUBLISHING)
       /\ stack[i].node # 0
       /\ chans[stack[i].chan].callingNode = stack[i].node
  /\ \A c \in DOMAIN chans : ~InProgress(c) => chans[c].callingNode = 0

\* C30: at most one publish traversal is active on a Channel object, and
\* its node is the calling node of the object; a publish call on an object
\* whose publishing bit is set schedules one timer and returns, and leaves
\* the traversals in progress, the lists and the registry as they are.
C30_OneTraversal ==
  [][/\ OneTraversal'
     /\ \A name \in Names, in \in MainPublishInputs :
          /\ Defers(channels[name]) /\ lastCall'.op = "publish"
          /\ Publish(name, in[1], in[2])
          =>
            /\ lastCall'.deferred /\ lastCall'.result \in {"undefined", "promise"}
            /\ Len(timers') = Len(timers) + 1
            /\ timers'[Len(timers')].chan = channels[name]
            /\ stack' = stack /\ nodes' = nodes /\ chans' = chans
            /\ channels' = channels]_vars

\* H1 of foo has published bar, and H2 of bar has published bar again: two
\* traversals on two Channel objects are in progress and the second publish
\* of bar waits as a timer.
C30_Witness ==
  /\ Len(stack) = 2 /\ stack[1].chan # stack[2].chan
  /\ lastCall.op = "publish" /\ lastCall.deferred /\ lastCall.chan = stack[2].chan
  /\ timers # <<>> /\ timers[Len(timers)].chan = stack[2].chan

\* A subscriber called interrupt() during the publish that has returned:
\* the flag was set at the return and a subscriber had been invoked (only a
\* running subscriber can set the flag of a channel that is publishing).
HandlerInterrupted == lastCall.interrupted /\ lastCall.fr.log # <<>>

\* The number of times the publish of frame fr has invoked node n.
Invocations(fr, n) == Cardinality({i \in DOMAIN fr.log : fr.log[i].node = n})

\* The nodes that were registered when the publish of fr started and have
\* not been spliced out of the channel since.
Stayed(fr) == Range(fr.snap) \cap Range(Order(chans[fr.chan], nodes))

\* C31: a publish during which no subscriber has called interrupt() has
\* invoked exactly once every node that was registered when it started and
\* that is still registered when it returns.
C31_EveryoneOnce ==
  Ran /\ ~HandlerInterrupted =>
    \A n \in Stayed(lastCall.fr) : Invocations(lastCall.fr, n) = 1

\* The nodes that were subscribed to the channel of fr during its publish
\* and are registered there when it returns.
Joined(fr) == Range(Order(chans[fr.chan], nodes)) \ Range(fr.snap)

\* C32: when a publish that no interrupt has ended returns, a node that was
\* subscribed during it and is still registered has been invoked by it,
\* once, exactly when it was appended to the bucket then traversed or to a
\* later one; a node appended to a bucket already traversed has not been
\* invoked and waits, registered, for the next publish.
C32_LateExactly ==
  Ran /\ ~lastCall.interrupted =>
    \A n \in Joined(lastCall.fr) :
      /\ n \in Range(lastCall.fr.late) => Invocations(lastCall.fr, n) = 1
      /\ n \notin Range(lastCall.fr.late) => Invocations(lastCall.fr, n) = 0

\* The subscriber of bucket 4 has subscribed a second one to bucket 0
\* during the publish, and the publish has returned without invoking it.
C32_Witness ==
  /\ Ran /\ ~lastCall.interrupted
  /\ Len(lastCall.fr.snap) = 1 /\ LogNodes(lastCall.fr) = lastCall.fr.snap
  /\ nodes[lastCall.fr.snap[1]].priority = 4
  /\ lastCall.fr.late = <<>>
  /\ \E n \in Joined(lastCall.fr) : nodes[n].priority = 0

\* The index of a name after the removal of fn: its array without fn, and
\* no array when fn was alone under its hash id.
IndexWithout(name, fn) ==
  LET index == IndexFns(name)
      id == hashFn(fn)
  IN  IF Len(index[id]) > 1
      THEN [k \in DOMAIN index |-> IF k = id THEN Without(index[k], fn) ELSE index[k]]
      ELSE [k \in DOMAIN index \ {id} |-> index[k]]

\* C33: an unsubscribe call that returns true has removed its function,
\* and nothing else, from the subscribers of the name and from the array of
\* its hash id; the other functions of that array stay in it and stay
\* registered, and the array goes when the function was its last one.  A
\* publish that no interrupt ends invokes once every node that stays.
C33_SameHash ==
  [][/\ \A name \in Names, fn \in Fns :
          /\ lastCall'.op = "unsubscribe" /\ lastCall'.result = "true"
          /\ Unsubscribe(name, fn)
          =>
            /\ fn \in FnsOf(Registered(name))
            /\ RegisteredFns(name)' = Without(RegisteredFns(name), fn)
            /\ IF RegisteredFns(name)' = <<>>
               THEN channels'[name] = 0
               ELSE IndexFns(name)' = IndexWithout(name, fn)
     /\ (Ran /\ ~lastCall.interrupted =>
           \A n \in Stayed(lastCall.fr) : Invocations(lastCall.fr, n) = 1)'
    ]_vars

\* H1 and H2 have one hash id; a running subscriber has removed H2 from
\* the list and from their array, where H1 is alone now and registered.
C33_Witness ==
  /\ stack # <<>> /\ lastCall.op = "unsubscribe" /\ lastCall.result = "true"
  /\ hashFn("H1") = hashFn("H2")
  /\ "H1" \in FnsOf(Registered("foo"))
  /\ IndexFns("foo")[hashFn("H1")] = <<"H1">>
  /\ \E n \in DOMAIN nodes \ LinkedNodes : nodes[n].fn = "H2"

----------------------------------------------------------------------------
\* The subscribers that unsubscribe themselves and publish their own
\* channel again (the test "should allow unsubscribing during the publish &
\* republish"): H1 and H3 unsubscribe first and publish then, H2 publishes
\* first.  Top-level code subscribes and publishes while nothing is
\* running and no timer waits; a subscriber runs to its end and the event
\* loop runs every timer.
LoopSubscribeInputs ==
  {<<"foo", "H1", NoPriority>>, <<"foo", "H2", NoPriority>>,
   <<"foo", "H3", Priority(0)>>, <<"bar", "H1", NoPriority>>}

UnsubscribesFirst(fn) == fn # "H2"

\* The running subscriber calls unsubscribe(its channel name, itself).
HandlerUnsubscribes ==
  /\ stack # <<>>
  /\ IF UnsubscribesFirst(nodes[Running.node].fn)
     THEN lastCall = NoCall ELSE lastCall.op = "publish"
  /\ Commit(PubSubUnsubscribe(State, chans[Running.chan].namespace,
                              nodes[Running.node].fn))

\* The running subscriber calls publish(its channel name).
HandlerRepublishes ==
  /\ stack # <<>>
  /\ IF UnsubscribesFirst(nodes[Running.node].fn)
     THEN lastCall.op = "unsubscribe" ELSE lastCall = NoCall
  /\ Commit(PubSubPublish(State, chans[Running.chan].namespace, <<Val("a")>>, <<>>,
                          publishOptions))

\* The running subscriber has made both calls and returns.
HandlerReturns ==
  /\ stack # <<>>
  /\ IF UnsubscribesFirst(nodes[Running.node].fn)
     THEN lastCall.op = "publish" ELSE lastCall.op = "unsubscribe"
  /\ Finish(NoErr)

NextLoop ==
  \/ \E in \in LoopSubscribeInputs :
       timers = <<>> /\ SubscribeAtTop(in[1], in[2], in[3])
  \/ \E name \in Names :
       stack = <<>> /\ timers = <<>> /\ Publish(name, <<Val("a")>>, <<>>)
  \/ HandlerUnsubscribes
  \/ HandlerRepublishes
  \/ HandlerReturns
  \/ RunDeferredPublish
  \/ RunDeferredUnsubscribe

SpecLoop ==
  /\ Init /\ [][NextLoop]_vars
  /\ WF_vars(HandlerUnsubscribes) /\ WF_vars(HandlerRepublishes)
  /\ WF_vars(HandlerReturns)
  /\ WF_vars(RunDeferredPublish) /\ WF_vars(RunDeferredUnsubscribe)

\* Nothing is running and no timer waits.
Quiet == stack = <<>> /\ timers = <<>>

\* C34: a subscriber that unsubscribes itself and publishes its channel
\* again while it is invoked does not loop: from every invocation on, the
\* program reaches a state where nothing runs, no timer waits and the
\* subscriber is not registered under the name of its channel.
C34_NoLoop ==
  \A name \in Names, fn \in Fns :
    (stack # <<>> /\ NameOf(Running) = name /\ nodes[Running.node].fn = fn)
      ~> (Quiet /\ fn \notin FnsOf(Registered(name)))

\* The last timer, a deferred publish of foo, has run on the channel that
\* the deferred removals have emptied, and has invoked nobody.
C34_Witness ==
  /\ Quiet /\ Ran /\ lastCall.fr.origin = "timer" /\ lastCall.fr.log = <<>>
  /\ NameOf(lastCall.fr) = "foo" /\ Registered("foo") = <<>>

\* The subscribers of a name, each with its function and its bucket, in
\* the order of a traversal.
Listing(name) ==
  [i \in DOMAIN Registered(name) |->
     <<nodes[Registered(name)[i]].fn, nodes[Registered(name)[i]].priority>>]

\* The command mask of the channel of a name and the function it is
\* invoking.
PublishState(name) ==
  IF channels[name] = 0 THEN <<>>
  ELSE <<chans[channels[name]].mask,
         IF chans[channels[name]].callingNode = 0 THEN ""
         ELSE nodes[chans[channels[name]].callingNode].fn>>

\* C35: a subscribe call of a function that is registered under the name
\* throws to its caller, whatever suppressErrors the publish in progress
\* has; and a subscribe call that throws leaves the
\* registry, the buckets, the index and the mask and calling node of every
\* channel, the publishes in progress and the timers as they were.
C35_DuplicateChangesNothing ==
  [][lastCall'.op = "subscribe" =>
       /\ lastCall'.input[2] \in FnsOf(Registered(lastCall'.input[1]))
            => lastCall'.result = "threw"
       /\ lastCall'.result = "threw" =>
            /\ \A n \in Names :
                 /\ Listing(n)' = Listing(n)
                 /\ IndexFns(n)' = IndexFns(n)
                 /\ PublishState(n)' = PublishState(n)
            /\ NothingMoves
    ]_vars

\* A subscriber invoked by a publish that suppresses errors has subscribed
\* a function that is registered, and the call has thrown.
C35_Witness ==
  /\ stack # <<>> /\ Running.suppress
  /\ lastCall.op = "subscribe" /\ lastCall.result = "threw"
  /\ lastCall.input[2] \in FnsOf(Registered(lastCall.input[1]))
  /\ Len(Registered("foo")) = 2

----------------------------------------------------------------------------
\* The deferred removal and a new subscription of the same function: H1
\* and H2 are subscribed to foo; a subscriber may unsubscribe itself while
\* it is invoked, and top-level code unsubscribes and subscribes again
\* while the timer of the removal waits.
ResubSubscribeInputs == {<<"foo", "H1", NoPriority>>, <<"foo", "H2", NoPriority>>}

\* The running subscriber calls unsubscribe(its channel name, itself); a
\* deferred removal is noted on the node that is being invoked.
UnsubscribesItself ==
  /\ stack # <<>> /\ lastCall = NoCall
  /\ \E s \in {PubSubUnsubscribe(State, chans[Running.chan].namespace,
                                 nodes[Running.node].fn)} :
       /\ Len(s.timers) <= MaxTimers
       /\ Commit(IF s.lastCall.deferred
                 THEN [s EXCEPT !.nodes[Running.node].pending = TRUE]
                 ELSE s)

NextResub ==
  \/ \E in \in ResubSubscribeInputs : SubscribeAtTop(in[1], in[2], in[3])
  \/ \E fn \in {"H1", "H2"} : stack = <<>> /\ Unsubscribe("foo", fn)
  \/ stack = <<>> /\ Publish("foo", <<Val("a")>>, <<>>)
  \/ UnsubscribesItself
  \/ SubscriberReturns
  \/ RunDeferredUnsubscribe

SpecResub == Init /\ [][NextResub]_vars

\* The node that the timer at the head of the queue would remove: the node
\* of its Channel object that holds its function; 0 when there is none.
TimerTarget ==
  LET t == Head(timers)
      held == {n \in IndexNodes(chans[t.chan]) : nodes[n].fn = t.fn}
  IN  IF held = {} THEN 0 ELSE CHOOSE n \in held : TRUE

\* C36: a deferred removal removes only the subscription that was being
\* invoked when unsubscribe was called: the node that the timer splices out
\* is a node whose removal was deferred, never a node that was subscribed
\* since.
C36_RemovesTheInvoked ==
  [][/\ stack = <<>> /\ timers # <<>> /\ Head(timers).kind = "unsubscribe"
     /\ lastCall'.op = "deferredUnsubscribe" /\ lastCall'.result = "true"
     => nodes[TimerTarget].pending]_vars

====
